---- MODULE Spec2Model ----
(***************************************************************************)
(* Model of the in-memory credential store of src/auth-service/users.rs:   *)
(* UsersImpl with its two HashMaps and the three operations of the Users   *)
(* trait (create_user, get_user_uuid, delete_user).                        *)
(*                                                                         *)
(* Strings are finite sequences of character codes (naturals).  The two    *)
(* random sources (Uuid::new_v4 and SaltString::generate over OsRng) are   *)
(* modelled as nondeterministic draws of a value that was not drawn        *)
(* before: that is the collision-freedom the uuid and rand_core crates     *)
(* promise (122 and 128 random bits) and it is an assumption of this       *)
(* model, not something users.rs checks.                                   *)
(***************************************************************************)
EXTENDS Naturals, Sequences, FiniteSets

\* ------------------------------------------------------------------ bounds
NumUsernames == 2
NumPasswords == 2
MaxUuid == 2
MaxSalt == 2

\* caller inputs: the usernames and passwords tried by the callers
USERNAMES == {<<c>> : c \in 1..NumUsernames}
PASSWORDS == {<<c>> : c \in 1..NumPasswords}
\* the values the two random sources can yield
UUID_VALUES == 1..MaxUuid
SALTS == 1..MaxSalt

VARIABLES
    uuid_to_user,      \* UsersImpl.uuid_to_user : HashMap<String, User>
    username_to_user,  \* UsersImpl.username_to_user : HashMap<String, User>
    issued,            \* the values Uuid::new_v4 has returned so far
    salts,             \* the salts SaltString::generate has returned so far
    ever,              \* history: every identifier a stored record ever had
    created,           \* history: per username, how many create_user succeeded
    call,              \* the last call made on the store
    ret                \* what that call returned (or that it panicked)

vars == <<uuid_to_user, username_to_user, issued, salts, ever, created, call, ret>>

\* ------------------------------------------------------------ HashMap ops
\* HashMap::insert: adds the entry, replacing an entry with the same key
Insert(m, k, v) == [x \in (DOMAIN m) \cup {k} |-> IF x = k THEN v ELSE m[x]]

\* HashMap::remove: the map without the key
Remove(m, k) == [x \in (DOMAIN m) \ {k} |-> m[x]]

\* HashMap::len
MapLen(m) == Cardinality(DOMAIN m)

\* the records a map holds (its values)
Records(m) == {m[k] : k \in DOMAIN m}

\* -------------------------------------------------------- uuid and hashing
\* Uuid::to_string: the value rendered as hexadecimal digits
UuidToString(n) == <<n \div 16, n % 16>>

\* every string a Uuid of the model renders to
UUIDS == {UuidToString(n) : n \in UUID_VALUES}

\* Uuid::new_v4(): the values a draw can yield (never one drawn before)
Uuid_new_v4 == UUID_VALUES \ issued

\* SaltString::generate(&mut OsRng): the salts a draw can yield
SaltString_generate == SALTS \ salts

\* Pbkdf2 key derivation: a deterministic function of password and salt,
\* injective in the pair (an ideal hash: no collisions)
Pbkdf2Output(password, salt) ==
    <<salt, Len(password)>> \o [i \in 1..Len(password) |-> password[i] + salt]

\* PasswordHash::to_string: the PHC string "$<algorithm>$<salt>$<hash>";
\* 0 is the '$' separator, 1 the algorithm identifier
HashToString(salt, output) == <<0, 1, 0, salt, 0>> \o output

\* a create_user that stores the password as given, unhashed
hash_password_plain(password, salt) == password

\* a hash_password with a hard-coded salt in place of the generated one
hash_password_fixed_salt(password, salt) == HashToString(1, Pbkdf2Output(password, 1))

\* Pbkdf2.hash_password(password, &salt) ... .to_string()
hash_password(password, salt) == HashToString(salt, Pbkdf2Output(password, salt))

\* PasswordHash::new(&str): parse a PHC string; ok = FALSE when malformed
PasswordHash_new(s) ==
    IF Len(s) >= 5 /\ s[1] = 0 /\ s[2] = 1 /\ s[3] = 0 /\ s[5] = 0
    THEN [ok |-> TRUE, salt |-> s[4], hash |-> SubSeq(s, 6, Len(s))]
    ELSE [ok |-> FALSE, salt |-> 0, hash |-> <<>>]

\* Pbkdf2.verify_password(password, &parsed_hash): recompute and compare
verify_password(password, parsed) == Pbkdf2Output(password, parsed.salt) = parsed.hash

\* a User literal with the identifier and the username interchanged
NewUserSwapped(uuid, username, hashed_password) ==
    [user_uuid |-> username, username |-> uuid, password |-> hashed_password]

\* the User struct literal of create_user
NewUser(uuid, username, hashed_password) ==
    [user_uuid |-> uuid, username |-> username, password |-> hashed_password]

\* ------------------------------------------------------------ return values
\* tag: the variant returned; val: the String inside Some; msg: the String inside Err
Result(tag, val, msg) == [tag |-> tag, val |-> val, msg |-> msg]
RetOk == Result("Ok", <<>>, "")
RetErrDuplicate == Result("Err", <<>>, "Username {name} already exists")
RetErrHash == Result("Err", <<>>, "Failed to hash password.")
RetSome(id) == Result("Some", id, "")
RetNone == Result("None", <<>>, "")
RetUnit == Result("Unit", <<>>, "")
\* a panic of unwrap(); val holds the source line of the unwrap
RetPanic(line) == Result("Panic", <<line>>, "called Option::unwrap() on a None value")

Call(op, a, b) == [op |-> op, arg1 |-> a, arg2 |-> b]

\* a panic (unwrap on None) unwinds out of the store: no call follows it
Running == ret.tag # "Panic"

\* -------------------------------------------------------------------- Init
\* UsersImpl::default(): both maps empty
Init ==
    /\ uuid_to_user = << >>
    /\ username_to_user = << >>
    /\ issued = {}
    /\ salts = {}
    /\ ever = {}
    /\ created = [u \in USERNAMES |-> 0]
    /\ call = Call("new", <<>>, <<>>)
    /\ ret = RetUnit

\* ----------------------------------------------------------- get_user_uuid
\* a get_user_uuid that drops the result of verify_password
get_user_uuid_unverified(m, username, password) ==
    IF username \notin DOMAIN m
    THEN RetNone
    ELSE LET user == m[username]
             parsed_hash == PasswordHash_new(user.password)
         IN  IF ~parsed_hash.ok THEN RetNone ELSE RetSome(user.user_uuid)

\* what get_user_uuid(username, password) returns on the username index m
get_user_uuid(m, username, password) ==
    IF username \notin DOMAIN m
    THEN RetNone
    ELSE LET user == m[username]
             parsed_hash == PasswordHash_new(user.password)
         IN  IF ~parsed_hash.ok
             THEN RetNone
             ELSE IF verify_password(password, parsed_hash)
                  THEN RetSome(user.user_uuid)
                  ELSE RetNone

\* ----------------------------------------------------------------- actions
\* a create_user without the username check: a taken username is inserted
\* again, under a new identifier
CreateUserNoCheck(username, password) ==
    /\ Running
    /\ username \in DOMAIN username_to_user
    /\ \E salt \in SaltString_generate, uuid \in Uuid_new_v4 :
          LET hashed_password == hash_password(password, salt)
              user == NewUser(UuidToString(uuid), username, hashed_password)
          IN  /\ salts' = salts \cup {salt}
              /\ issued' = issued \cup {uuid}
              /\ username_to_user' = Insert(username_to_user, username, user)
              /\ uuid_to_user' = Insert(uuid_to_user, user.user_uuid, user)
              /\ ever' = ever \cup {user.user_uuid}
              /\ created' = [created EXCEPT ![username] = @ + 1]
    /\ call' = Call("create_user", username, password)
    /\ ret' = RetOk

\* create_user: the username is taken
CreateUserDuplicate(username, password) ==
    /\ Running
    /\ username \in DOMAIN username_to_user
    /\ call' = Call("create_user", username, password)
    /\ ret' = RetErrDuplicate
    /\ UNCHANGED <<uuid_to_user, username_to_user, issued, salts, ever, created>>

\* a create_user that reserves the username before hashing and leaves the
\* reservation behind when hash_password fails
CreateUserHashFailsAfterInsert(username, password) ==
    /\ Running
    /\ username \notin DOMAIN username_to_user
    /\ \E salt \in SaltString_generate :
          salts' = salts \cup {salt}
    /\ username_to_user' =
          Insert(username_to_user, username, NewUser(<<>>, username, <<>>))
    /\ call' = Call("create_user", username, password)
    /\ ret' = RetErrHash
    /\ UNCHANGED <<uuid_to_user, issued, ever, created>>

\* create_user: the username is free, the salt is drawn, hash_password fails
CreateUserHashFails(username, password) ==
    /\ Running
    /\ username \notin DOMAIN username_to_user
    /\ \E salt \in SaltString_generate :
          salts' = salts \cup {salt}
    /\ call' = Call("create_user", username, password)
    /\ ret' = RetErrHash
    /\ UNCHANGED <<uuid_to_user, username_to_user, issued, ever, created>>

\* a create_user that numbers the records: the identifier is the count of
\* stored records plus one
CreateUserOkSequentialId(username, password) ==
    /\ Running
    /\ username \notin DOMAIN username_to_user
    /\ \E salt \in SaltString_generate, uuid \in Uuid_new_v4 :
          LET hashed_password == hash_password(password, salt)
              user == NewUser(UuidToString(MapLen(uuid_to_user) + 1),
                              username, hashed_password)
          IN  /\ salts' = salts \cup {salt}
              /\ issued' = issued \cup {uuid}
              /\ username_to_user' = Insert(username_to_user, username, user)
              /\ uuid_to_user' = Insert(uuid_to_user, user.user_uuid, user)
              /\ ever' = ever \cup {user.user_uuid}
              /\ created' = [created EXCEPT ![username] = @ + 1]
    /\ call' = Call("create_user", username, password)
    /\ ret' = RetOk

\* a create_user that inserts into username_to_user only
CreateUserOkOneIndex(username, password) ==
    /\ Running
    /\ username \notin DOMAIN username_to_user
    /\ \E salt \in SaltString_generate, uuid \in Uuid_new_v4 :
          LET hashed_password == hash_password(password, salt)
              user == NewUser(UuidToString(uuid), username, hashed_password)
          IN  /\ salts' = salts \cup {salt}
              /\ issued' = issued \cup {uuid}
              /\ username_to_user' = Insert(username_to_user, username, user)
              /\ uuid_to_user' = uuid_to_user
              /\ ever' = ever \cup {user.user_uuid}
              /\ created' = [created EXCEPT ![username] = @ + 1]
    /\ call' = Call("create_user", username, password)
    /\ ret' = RetOk

\* create_user: the username is free, the record is built and inserted
CreateUserOk(username, password) ==
    /\ Running
    /\ username \notin DOMAIN username_to_user
    /\ \E salt \in SaltString_generate, uuid \in Uuid_new_v4 :
          LET hashed_password == hash_password(password, salt)
              user == NewUser(UuidToString(uuid), username, hashed_password)
          IN  /\ salts' = salts \cup {salt}
              /\ issued' = issued \cup {uuid}
              /\ username_to_user' = Insert(username_to_user, username, user)
              /\ uuid_to_user' = Insert(uuid_to_user, user.user_uuid, user)
              /\ ever' = ever \cup {user.user_uuid}
              /\ created' = [created EXCEPT ![username] = @ + 1]
    /\ call' = Call("create_user", username, password)
    /\ ret' = RetOk

CreateUser(username, password) ==
    \/ CreateUserDuplicate(username, password)
    \/ CreateUserHashFails(username, password)
    \/ CreateUserOk(username, password)

\* a get_user_uuid that takes the record out of the index (remove for get)
GetUserUuidTakes(username, password) ==
    /\ Running
    /\ call' = Call("get_user_uuid", username, password)
    /\ ret' = get_user_uuid(username_to_user, username, password)
    /\ username_to_user' = Remove(username_to_user, username)
    /\ UNCHANGED <<uuid_to_user, issued, salts, ever, created>>

GetUserUuid(username, password) ==
    /\ Running
    /\ call' = Call("get_user_uuid", username, password)
    /\ ret' = get_user_uuid(username_to_user, username, password)
    /\ UNCHANGED <<uuid_to_user, username_to_user, issued, salts, ever, created>>

\* a delete_user that removes the record from uuid_to_user only
DeleteUserKeepsUsername(user_uuid) ==
    /\ Running
    /\ call' = Call("delete_user", user_uuid, <<>>)
    /\ IF user_uuid \notin DOMAIN uuid_to_user
       THEN /\ ret' = RetPanic(82)
            /\ UNCHANGED uuid_to_user
       ELSE /\ ret' = RetUnit
            /\ uuid_to_user' = Remove(uuid_to_user, user_uuid)
    /\ UNCHANGED <<username_to_user, issued, salts, ever, created>>

\* delete_user: remove from uuid_to_user and unwrap (panics on None, the map
\* untouched); then remove the record's username from username_to_user and
\* unwrap (panics on None, the first removal already made)
DeleteUser(user_uuid) ==
    /\ Running
    /\ call' = Call("delete_user", user_uuid, <<>>)
    /\ IF user_uuid \notin DOMAIN uuid_to_user
       THEN /\ ret' = RetPanic(82)
            /\ UNCHANGED <<uuid_to_user, username_to_user>>
       ELSE LET username == uuid_to_user[user_uuid].username
            IN  /\ uuid_to_user' = Remove(uuid_to_user, user_uuid)
                /\ IF username \notin DOMAIN username_to_user
                   THEN /\ ret' = RetPanic(83)
                        /\ UNCHANGED username_to_user
                   ELSE /\ ret' = RetUnit
                        /\ username_to_user' = Remove(username_to_user, username)
    /\ UNCHANGED <<issued, salts, ever, created>>

\* the identifiers a caller may pass to delete_user: any uuid string, or a
\* string that is no uuid at all
DELETE_ARGS == UUIDS \cup {<<>>}

Next ==
    \/ \E username \in USERNAMES, password \in PASSWORDS : CreateUser(username, password)
    \/ \E username \in USERNAMES, password \in PASSWORDS : GetUserUuid(username, password)
    \/ \E user_uuid \in DELETE_ARGS : DeleteUser(user_uuid)

Spec == Init /\ [][Next]_vars

\* ------------------------------------------------------------------ claims
\* the records of either index
AllRecords == Records(uuid_to_user) \cup Records(username_to_user)

\* C1: after any sequence of completed calls the two indexes hold the same
\* set of records: no record is in one index only.
C1_IndexesHoldSameRecords == Records(uuid_to_user) = Records(username_to_user)

\* C1 witness: a delete_user has completed and left another record behind
C1_Witness ==
    /\ call.op = "delete_user"
    /\ ret = RetUnit
    /\ MapLen(uuid_to_user) = 1
    /\ MapLen(username_to_user) = 1

\* C2: no two live records have the same username, across both indexes.
C2_UsernameUnique ==
    \A r1 \in AllRecords, r2 \in AllRecords : r1.username = r2.username => r1 = r2

\* C2 witness: two records are live and a create_user of a taken username
\* has just been refused
C2_Witness ==
    /\ MapLen(username_to_user) = 2
    /\ MapLen(uuid_to_user) = 2
    /\ call.op = "create_user"
    /\ ret = RetErrDuplicate

\* C3: create_user with a registered username returns the duplicate-username
\* error, leaves both indexes as they were (same records, same count) and
\* consumes no identifier.
C3_DuplicateCreateChangesNothing ==
    [][(call'.op = "create_user" /\ call'.arg1 \in DOMAIN username_to_user)
         => /\ ret' = RetErrDuplicate
            /\ uuid_to_user' = uuid_to_user
            /\ username_to_user' = username_to_user
            /\ MapLen(uuid_to_user') = MapLen(uuid_to_user)
            /\ MapLen(username_to_user') = MapLen(username_to_user)
            /\ issued' = issued
            /\ ever' = ever]_vars

\* C3 witness: a create_user of a registered username has returned its error
C3_Witness ==
    /\ call.op = "create_user"
    /\ call.arg1 \in DOMAIN username_to_user
    /\ ret = RetErrDuplicate
    /\ Uuid_new_v4 # {}

\* a step that is a successful create_user
CreateSucceeds == call'.op = "create_user" /\ ret' = RetOk

\* C4: after create_user(u, p) succeeds, get_user_uuid(u, p) returns Some(id)
\* in every state until the record is deleted, id being the record's
\* non-empty identifier, different from the identifier of every other account.
C4_Step ==
    /\ CreateSucceeds =>
         LET u == call'.arg1
             p == call'.arg2
         IN  /\ u \in DOMAIN username_to_user'
             /\ get_user_uuid(username_to_user', u, p)
                  = RetSome(username_to_user'[u].user_uuid)
    /\ \A u \in USERNAMES, p \in PASSWORDS :
         LET r == get_user_uuid(username_to_user, u, p)
         IN  (r.tag = "Some" /\ ~(call'.op = "delete_user" /\ call'.arg1 = r.val))
               => get_user_uuid(username_to_user', u, p) = r

C4_State ==
    \A u \in USERNAMES, p \in PASSWORDS :
       LET r == get_user_uuid(username_to_user, u, p)
       IN  r.tag = "Some" =>
             /\ r.val # <<>>
             /\ r.val = username_to_user[u].user_uuid
             /\ \A u2 \in (DOMAIN username_to_user) \ {u} :
                   username_to_user[u2].user_uuid # r.val
             /\ \A k \in (DOMAIN uuid_to_user) \ {r.val} :
                   uuid_to_user[k].user_uuid # r.val

C4_CreateThenVerify == []C4_State /\ [][C4_Step]_vars

\* C4 witness: get_user_uuid has returned the identifier of one of two live
\* accounts
C4_Witness ==
    /\ call.op = "get_user_uuid"
    /\ ret.tag = "Some"
    /\ ret.val # <<>>
    /\ MapLen(username_to_user) = 2

\* C5: for a username created with password p, get_user_uuid with any other
\* password returns None, for as long as the record lives.
C5_Step ==
    /\ CreateSucceeds =>
         \A q \in PASSWORDS \ {call'.arg2} :
            get_user_uuid(username_to_user', call'.arg1, q) = RetNone
    /\ \A u \in USERNAMES, q \in PASSWORDS :
         (/\ u \in DOMAIN username_to_user
          /\ u \in DOMAIN username_to_user'
          /\ get_user_uuid(username_to_user, u, q) = RetNone)
            => get_user_uuid(username_to_user', u, q) = RetNone
    /\ (call'.op = "get_user_uuid" /\ call'.arg1 \in DOMAIN username_to_user)
         => ret' = get_user_uuid(username_to_user, call'.arg1, call'.arg2)

C5_WrongPasswordNone == [][C5_Step]_vars

\* C5 witness: get_user_uuid of a registered username has returned None
C5_Witness ==
    /\ call.op = "get_user_uuid"
    /\ call.arg1 \in DOMAIN username_to_user
    /\ ret = RetNone

\* no record of the primary index (uuid_to_user) has this username
NotRegistered(u) == \A r \in Records(uuid_to_user) : r.username # u

\* C6: get_user_uuid of a username that is not registered returns None for
\* every password, also when the username was registered and then deleted.
C6_State ==
    \A u \in USERNAMES, p \in PASSWORDS :
       NotRegistered(u) => get_user_uuid(username_to_user, u, p) = RetNone

C6_Step ==
    (call'.op = "get_user_uuid" /\ NotRegistered(call'.arg1)) => ret' = RetNone

C6_UnknownUsernameNone == []C6_State /\ [][C6_Step]_vars

\* C6 witness: None was returned for a username that was registered and
\* deleted (every identifier issued, no record left)
C6_Witness ==
    /\ call.op = "get_user_uuid"
    /\ NotRegistered(call.arg1)
    /\ ret = RetNone
    /\ ever # {}
    /\ MapLen(uuid_to_user) = 0

\* C7: delete_user with an identifier of no live record returns a recoverable
\* error to the caller, changes no state and does not terminate the process.
C7_UnknownDeleteRecoverable ==
    [][(call'.op = "delete_user" /\ call'.arg1 \notin DOMAIN uuid_to_user)
         => /\ ret'.tag = "Err"
            /\ ret'.tag # "Panic"
            /\ uuid_to_user' = uuid_to_user
            /\ username_to_user' = username_to_user]_vars

\* a step that is a delete_user running to completion
DeleteCompletes == call'.op = "delete_user" /\ ret' = RetUnit

\* C8: once delete_user(id) completes, for the id get_user_uuid returned for
\* (u, p), neither index holds an entry or record for u or id, and
\* get_user_uuid(u, p) returns None.
C8_Step ==
    DeleteCompletes =>
       LET id == call'.arg1
           u == uuid_to_user[id].username
       IN  /\ id \notin DOMAIN uuid_to_user'
           /\ u \notin DOMAIN username_to_user'
           /\ \A r \in Records(uuid_to_user') \cup Records(username_to_user') :
                 r.user_uuid # id /\ r.username # u
           /\ \A p \in PASSWORDS : get_user_uuid(username_to_user', u, p) = RetNone

C8_DeleteRemovesFromBoth == [][C8_Step]_vars

\* C8 witness: delete_user has completed for an identifier that get_user_uuid
\* could have returned (one that was issued)
C8_Witness ==
    /\ call.op = "delete_user"
    /\ ret = RetUnit
    /\ call.arg1 \in ever
    /\ call.arg1 \notin DOMAIN uuid_to_user

\* C9: the identifier a successful create_user assigns was never the
\* identifier of any record of this store, live or deleted.
C9_Step ==
    CreateSucceeds =>
       LET id == username_to_user'[call'.arg1].user_uuid
       IN  id \notin ever /\ id \in ever'

C9_State ==
    \A r \in AllRecords : r.user_uuid \in ever

C10_Step ==
    (CreateSucceeds /\ call'.arg1 \notin DOMAIN username_to_user) =>
       LET u == call'.arg1
       IN  /\ MapLen(username_to_user') = MapLen(username_to_user) + 1
           /\ MapLen(uuid_to_user') = MapLen(uuid_to_user) + 1
           /\ DOMAIN username_to_user' = (DOMAIN username_to_user) \cup {u}
           /\ \A k \in DOMAIN username_to_user : username_to_user'[k] = username_to_user[k]
           /\ \A k \in DOMAIN uuid_to_user :
                 k \in DOMAIN uuid_to_user' /\ uuid_to_user'[k] = uuid_to_user[k]
           /\ username_to_user'[u].username = u
           /\ LET id == username_to_user'[u].user_uuid
              IN  /\ id \notin DOMAIN uuid_to_user
                  /\ id \in DOMAIN uuid_to_user'
                  /\ uuid_to_user'[id] = username_to_user'[u]

C10_CreateAddsOneToEach == [][C10_Step]_vars

\* C10 witness: a create_user has succeeded on a store that held a record
C10_Witness ==
    /\ call.op = "create_user"
    /\ ret = RetOk
    /\ MapLen(username_to_user) = 2
    /\ MapLen(uuid_to_user) = 2
    /\ call.arg1 \in DOMAIN username_to_user

\* C11: get_user_uuid never mutates the store: whatever it returns, both
\* indexes hold the same records after the call as before it.
C11_GetUserUuidReadOnly ==
    [][call'.op = "get_user_uuid"
         => /\ ret'.tag \in {"Some", "None"}
            /\ uuid_to_user' = uuid_to_user
            /\ username_to_user' = username_to_user
            /\ Records(uuid_to_user') = Records(uuid_to_user)
            /\ Records(username_to_user') = Records(username_to_user)]_vars

\* C11 witness: get_user_uuid has returned Some on a store of two records
C11_Witness ==
    /\ call.op = "get_user_uuid"
    /\ ret.tag = "Some"
    /\ ret.val \in DOMAIN uuid_to_user
    /\ MapLen(uuid_to_user) = 2

\* a step in which create_user drew a salt and no identifier: hash_password
\* failed between the two draws
HashingFails == call'.op = "create_user" /\ salts' # salts /\ issued' = issued

\* C12: when hashing fails inside create_user the call returns the hashing
\* error and neither index changes: no record and no partial entry for the
\* username is observable.
C12_HashFailureChangesNothing ==
    [][(HashingFails \/ (call'.op = "create_user" /\ ret' = RetErrHash))
         => /\ ret' = RetErrHash
            /\ uuid_to_user' = uuid_to_user
            /\ username_to_user' = username_to_user
            /\ call'.arg1 \notin DOMAIN username_to_user'
            /\ \A r \in Records(uuid_to_user') \cup Records(username_to_user') :
                  r.username # call'.arg1]_vars

\* C12 witness: create_user has returned the hashing error on a store that
\* holds a record
C12_Witness ==
    /\ call.op = "create_user"
    /\ ret = RetErrHash
    /\ MapLen(uuid_to_user) = 1
    /\ MapLen(username_to_user) = 1

\* a record enters the map m (mNext is m after the step)
Appears(r, m, mNext) == r \notin Records(m) /\ r \in Records(mNext)

\* a record leaves the map m
Disappears(r, m, mNext) == r \in Records(m) /\ r \notin Records(mNext)

\* in a step from index m to index mNext, records appear only by a successful
\* create_user of their username and disappear only by a completed
\* delete_user of their identifier
OwnCreateAndDeleteOnly(m, mNext) ==
    \A r \in Records(m) \cup Records(mNext) :
       /\ Appears(r, m, mNext) => (CreateSucceeds /\ call'.arg1 = r.username)
       /\ Disappears(r, m, mNext) => (DeleteCompletes /\ call'.arg1 = r.user_uuid)

\* C13: a record's liveness changes only through its own create and delete:
\* absent to live only by a successful create_user of its username, live to
\* absent only by a successful delete_user of its identifier; no call changes
\* the liveness of any other record.
C13_Step ==
    /\ OwnCreateAndDeleteOnly(uuid_to_user, uuid_to_user')
    /\ OwnCreateAndDeleteOnly(username_to_user, username_to_user')
    /\ \A u \in USERNAMES :
          /\ (u \notin DOMAIN username_to_user /\ u \in DOMAIN username_to_user')
                => (CreateSucceeds /\ call'.arg1 = u)
          /\ (u \in DOMAIN username_to_user /\ u \notin DOMAIN username_to_user')
                => (DeleteCompletes /\ call'.arg1 = username_to_user[u].user_uuid)
    /\ call'.op = "get_user_uuid" =>
          (Records(uuid_to_user') = Records(uuid_to_user)
             /\ Records(username_to_user') = Records(username_to_user))

C13_LivenessOnlyByOwnCreateDelete == [][C13_Step]_vars

\* C13 witness: one record was deleted while the other stayed live
C13_Witness ==
    /\ call.op = "delete_user"
    /\ ret = RetUnit
    /\ Cardinality(ever) = 2
    /\ \E u \in USERNAMES : u \in DOMAIN username_to_user /\ created[u] = 1

\* C14: a live record is read-only: while a key stays in an index the record
\* under it (identifier, username, password hash) is the same in every state,
\* under any operation, failed duplicate creates included.
C14_Step ==
    /\ \A k \in (DOMAIN uuid_to_user) \cap (DOMAIN uuid_to_user') :
          uuid_to_user'[k] = uuid_to_user[k]
    /\ \A u \in (DOMAIN username_to_user) \cap (DOMAIN username_to_user') :
          username_to_user'[u] = username_to_user[u]
    /\ \A r \in Records(username_to_user) :
          ~(DeleteCompletes /\ call'.arg1 = r.user_uuid)
             => r \in Records(username_to_user') /\ r \in Records(uuid_to_user')

C14_LiveRecordReadOnly == [][C14_Step]_vars

\* C14 witness: a duplicate create_user of a live username has failed, with
\* exactly that one record in the store
C14_Witness ==
    /\ call.op = "create_user"
    /\ ret = RetErrDuplicate
    /\ DOMAIN username_to_user = {call.arg1}
    /\ MapLen(uuid_to_user) = 1

\* the identifiers of records that were stored and have been deleted
DeletedIds == ever \ DOMAIN uuid_to_user

\* C15 as stated: with every call atomic, in every interleaving two
\* create_user calls for the same username never both succeed, and no
\* get_user_uuid after a completed delete_user(id) returns id.
C15_Step ==
    (call'.op = "get_user_uuid" /\ ret'.tag = "Some") => ret'.val \notin DeletedIds

C15_TwoCreatesNeverBothSucceed ==
    /\ [](\A u \in USERNAMES : created[u] <= 1)
    /\ [][C15_Step]_vars

\* C15 amended: two create_user calls for the same username never both
\* succeed while the record of the first is live (the second returns the
\* duplicate error with that record untouched); they can both succeed only
\* when a delete_user removed the first record in between.  No get_user_uuid
\* returns a deleted identifier.
C15_AmendedStep ==
    /\ (call'.op = "create_user" /\ call'.arg1 \in DOMAIN username_to_user)
          => (ret' = RetErrDuplicate /\ created' = created)
    /\ (CreateSucceeds /\ created[call'.arg1] >= 1)
          => \E id \in DeletedIds : TRUE
    /\ C15_Step

C15_AmendedState ==
    /\ \A u \in USERNAMES :
          Cardinality({r \in AllRecords : r.username = u}) <= 1
    /\ \A u \in USERNAMES :
          created[u] <= Cardinality(DeletedIds) + (IF u \in DOMAIN username_to_user THEN 1 ELSE 0)
    /\ \A u \in USERNAMES, p \in PASSWORDS :
          get_user_uuid(username_to_user, u, p).val \notin DeletedIds

C15_SerialisedCallers == []C15_AmendedState /\ [][C15_AmendedStep]_vars

\* C15 witness: a second create_user of a live username has been refused and
\* an identifier has been deleted before
C15_Witness ==
    /\ call.op = "create_user"
    /\ ret = RetErrDuplicate
    /\ created[call.arg1] = 1
    /\ DeletedIds # {}

\* the plaintext passwords that verify against a stored password field
PlaintextsOf(stored) ==
    {p \in PASSWORDS : LET parsed == PasswordHash_new(stored)
                       IN  parsed.ok /\ verify_password(p, parsed)}

\* C16: the password field of a record never equals the plaintext password
\* given to create_user, and two accounts created with the same password
\* hold different password hashes (each create_user draws a fresh salt).
C16_State ==
    /\ \A r \in AllRecords : r.password \notin PASSWORDS
    /\ \A r1 \in AllRecords, r2 \in AllRecords :
          r1.username # r2.username => r1.password # r2.password

C16_Step ==
    CreateSucceeds =>
       LET r == username_to_user'[call'.arg1]
       IN  /\ r.password # call'.arg2
           /\ uuid_to_user'[r.user_uuid].password # call'.arg2
           /\ call'.arg2 \in PlaintextsOf(r.password)
           /\ \A r2 \in Records(uuid_to_user) \cup Records(username_to_user) :
                 r2.password # r.password

C16_HashNotPlaintextAndSalted == []C16_State /\ [][C16_Step]_vars

\* C16 witness: two accounts created with the same password are live
C16_Witness ==
    \E r1 \in Records(uuid_to_user), r2 \in Records(uuid_to_user) :
       /\ r1.username # r2.username
       /\ PlaintextsOf(r1.password) = PlaintextsOf(r2.password)
       /\ PlaintextsOf(r1.password) # {}

\* C17: delete_user of a live identifier never hits the internal-consistency
\* fault: in every reachable state the username of each uuid_to_user record
\* is a key of username_to_user, so the second removal finds its entry.
C17_State ==
    /\ \A k \in DOMAIN uuid_to_user :
          uuid_to_user[k].username \in DOMAIN username_to_user
    /\ ret # RetPanic(83)

C17_Step ==
    (call'.op = "delete_user" /\ call'.arg1 \in DOMAIN uuid_to_user)
       => (ret' = RetUnit
             /\ uuid_to_user[call'.arg1].username \notin DOMAIN username_to_user')

C17_NoDesyncFault == []C17_State /\ [][C17_Step]_vars

\* C17 witness: the only record ever stored was deleted by its identifier
C17_Witness ==
    /\ call.op = "delete_user"
    /\ ret = RetUnit
    /\ ever = {call.arg1}
    /\ MapLen(username_to_user) = 0

\* C18: each index key agrees with the record under it and the two copies of
\* a record are equal: uuid_to_user[k].user_uuid = k,
\* username_to_user[u].username = u, and for every record r of either index
\* uuid_to_user[r.user_uuid] and username_to_user[r.username] are r.
C18_KeysAgreeWithRecords ==
    /\ \A k \in DOMAIN uuid_to_user : uuid_to_user[k].user_uuid = k
    /\ \A u \in DOMAIN username_to_user : username_to_user[u].username = u
    /\ \A r \in AllRecords :
          /\ r.user_uuid \in DOMAIN uuid_to_user
          /\ r.username \in DOMAIN username_to_user
          /\ uuid_to_user[r.user_uuid] = r
          /\ username_to_user[r.username] = r

\* C18 witness: two records are stored after a successful create_user
C18_Witness ==
    /\ MapLen(uuid_to_user) = 2
    /\ MapLen(username_to_user) = 2
    /\ ret = RetOk

\* the stored hash was produced from password p (under some salt)
ProducedFrom(stored, p) == \E salt \in SALTS : stored = hash_password(p, salt)

\* what C19 asks of an answer Some(id) to get_user_uuid(u, p)
SomeIsJustified(u, p, id) ==
    /\ id \in DOMAIN uuid_to_user
    /\ uuid_to_user[id].username = u
    /\ uuid_to_user[id].user_uuid = id
    /\ ProducedFrom(uuid_to_user[id].password, p)
    /\ u \in DOMAIN username_to_user
    /\ username_to_user[u] = uuid_to_user[id]
    /\ \A r \in AllRecords : r.username # u => r.user_uuid # id
    /\ id \notin DeletedIds

\* C19: get_user_uuid(u, p) returns Some(id) only if a live record has
\* username u, identifier id and a hash produced from p; it never returns the
\* identifier of a record with another username or of a deleted record.
C19_State ==
    \A u \in USERNAMES, p \in PASSWORDS :
       LET r == get_user_uuid(username_to_user, u, p)
       IN  r.tag = "Some" => SomeIsJustified(u, p, r.val)

C19_Step ==
    (call'.op = "get_user_uuid" /\ ret'.tag = "Some")
       => /\ SomeIsJustified(call'.arg1, call'.arg2, ret'.val)
          /\ ret'.val \in DOMAIN uuid_to_user'

C19_SomeOnlyForMatchingLiveRecord == []C19_State /\ [][C19_Step]_vars

\* C19 witness: Some(id) was returned while another username and a deleted
\* identifier exist
C19_Witness ==
    /\ call.op = "get_user_uuid"
    /\ ret.tag = "Some"
    /\ ret.val \in DOMAIN uuid_to_user
    /\ DeletedIds # {}

\* a create_user step for a username that was registered before and has no
\* record in uuid_to_user now
RecreateCall ==
    /\ call'.op = "create_user"
    /\ created[call'.arg1] >= 1
    /\ NotRegistered(call'.arg1)

\* C20: after delete_user removed the record of u, u is available again: a
\* later create_user(u, p2) is not refused as a duplicate and, succeeding,
\* gives the new record an identifier different from the deleted one;
\* get_user_uuid(u, p2) returns the new identifier and get_user_uuid(u, p1)
\* with an old password p1 # p2 returns None.
C20_State ==
    \A u \in USERNAMES, p \in PASSWORDS :
       (/\ created[u] >= 1
        /\ NotRegistered(u)
        /\ Running
        /\ SaltString_generate # {}
        /\ Uuid_new_v4 # {})
          => ENABLED CreateUserOk(u, p)

C20_Step ==
    /\ RecreateCall => ret' \in {RetOk, RetErrHash}
    /\ (RecreateCall /\ ret' = RetOk) =>
          LET u == call'.arg1
              p2 == call'.arg2
              id == username_to_user'[u].user_uuid
          IN  /\ id \notin ever
              /\ id \notin DeletedIds
              /\ get_user_uuid(username_to_user', u, p2) = RetSome(id)
              /\ \A p1 \in PASSWORDS \ {p2} :
                    get_user_uuid(username_to_user', u, p1) = RetNone

C20_DeletedUsernameAvailableAgain == []C20_State /\ [][C20_Step]_vars

\* C20 witness: a username was created, deleted and created again
C20_Witness ==
    /\ call.op = "create_user"
    /\ ret = RetOk
    /\ created[call.arg1] = 2
    /\ DeletedIds # {}

====
